---- MODULE Spec2Model ----
(***************************************************************************)
(* Model of src/runner.py: the ExperimentRunner (mask construction,        *)
(* magnitude pruning, the epoch loop of train) and the two-generation      *)
(* orchestration of mnist_experiment.                                      *)
(*                                                                         *)
(* Tensors are flattened to sequences of integers; a prune fraction is a   *)
(* number of tenths (2 stands for prune_percent = 0.2), a learning rate is *)
(* a fraction <<numerator, denominator>>.                                  *)
(***************************************************************************)
EXTENDS Integers, Sequences, FiniteSets, TLC

\* Largest weight magnitude the model enumerates.
MaxMag == 1
\* Largest num_epochs and largest number of batches of the train loader.
MaxEpochs == 3
MaxBatches == 2

Vals == (0 - MaxMag)..MaxMag

\* prune_percent values, in tenths: 0, the 0.2 of mnist_experiment, 0.5, 0.6
\* and 0.9.
PrunePercents == {0, 2, 5, 6, 9}

\* Values validate() and test() can return (100 * correct / total).
Accuracies == {50, 100}

----------------------------------------------------------------------------
\* The model handed to the runner: its named parameters, in order, and the
\* length of each (flattened) tensor.

named_parameters ==
    << [name |-> <<"fc1", "weight">>, shape |-> 2],
       [name |-> <<"fc1", "bias">>,   shape |-> 1],
       [name |-> <<"fc2", "weight">>, shape |-> 2],
       [name |-> <<"fc2", "bias">>,   shape |-> 1] >>

Names == {named_parameters[k].name : k \in 1..Len(named_parameters)}

Shape(name) ==
    LET k == CHOOSE j \in 1..Len(named_parameters) : named_parameters[j].name = name
    IN  named_parameters[k].shape

\* name.endswith('weight')
endswith_weight(name) == name[Len(name)] = "weight"

WeightNames == {n \in Names : endswith_weight(n)}

\* Bias values are read by no operation modelled here; each bias tensor is
\* kept at zeros.
Tensors(name) ==
    IF endswith_weight(name) THEN [1..Shape(name) -> Vals]
                             ELSE {[i \in 1..Shape(name) |-> 0]}

\* Every assignment of a tensor to the first k parameters.
RECURSIVE DataUpTo(_)
DataUpTo(k) ==
    IF k = 0 THEN {<<>>}
    ELSE LET name == named_parameters[k].name
         IN  {d @@ (name :> t) : d \in DataUpTo(k - 1), t \in Tensors(name)}

AllData == DataUpTo(Len(named_parameters))

----------------------------------------------------------------------------
\* Numeric helpers.

Abs(x) == IF x < 0 THEN 0 - x ELSE x

\* Variant: the product truncated, as int() would.
np_round_truncating(tenths, n) == (tenths * n) \div 10

\* Variant: a half rounded up, as int(x + 0.5) would.
np_round_half_up(tenths, n) == (tenths * n + 5) \div 10

\* np.round of (tenths / 10) * n: to the nearest integer, a half to the even
\* neighbour. (For the fractions and lengths used here the float product
\* rounds as the exact product does.)
np_round(tenths, n) ==
    LET q == (tenths * n) \div 10
        r == (tenths * n) % 10
    IN  IF r < 5 THEN q
        ELSE IF r > 5 THEN q + 1
        ELSE IF q % 2 = 0 THEN q ELSE q + 1

\* torch.masked_select(data, mask): the values where the mask is 1, in order.
RECURSIVE masked_select(_, _)
masked_select(d, m) ==
    IF d = <<>> THEN <<>>
    ELSE LET rest == masked_select(Tail(d), Tail(m))
         IN  IF Head(m) = 1 THEN <<Head(d)>> \o rest ELSE rest

torch_abs(s) == [i \in 1..Len(s) |-> Abs(s[i])]

\* torch.sort(...).values: ascending.
RECURSIVE Insert(_, _)
Insert(x, s) ==
    IF s = <<>> THEN <<x>>
    ELSE IF x <= Head(s) THEN <<x>> \o s
    ELSE <<Head(s)>> \o Insert(x, Tail(s))

RECURSIVE torch_sort(_)
torch_sort(s) == IF s = <<>> THEN <<>> ELSE Insert(Head(s), torch_sort(Tail(s)))

\* get_zero_count (utils): the number of zero entries of a tensor.
get_zero_count(d) == Cardinality({i \in 1..Len(d) : d[i] = 0})

----------------------------------------------------------------------------
\* ExperimentRunner.get_new_mask (lines 150-156). Where the tensors live
\* (.cuda(), line 153) is not modelled.

\* line 153
sorted_weights(d, m) == torch_sort(torch_abs(masked_select(d, m)))

\* line 154
cutoff_index(p, sw) == np_round(p, Len(sw))

\* Line 155: sorted_weights[cutoff_index] raises IndexError when the index
\* is out of range (the index is never negative); python indexes from 0.
IndexFault(ci, sw) == ci >= Len(sw)

\* Variant: rebuilt from ones, the prior mask dropped.
get_new_mask_from_ones(p, d, m) ==
    LET sw == sorted_weights(d, m)
        ci == cutoff_index(p, sw)
    IN  IF IndexFault(ci, sw) THEN [raised |-> TRUE, mask |-> m]
        ELSE LET cutoff == sw[ci + 1]
             IN  [raised |-> FALSE,
                  mask |-> [i \in 1..Len(m) |->
                               IF Abs(d[i]) <= cutoff THEN 0 ELSE 1]]

\* Variant: the cutoff element itself is kept.
get_new_mask_strict(p, d, m) ==
    LET sw == sorted_weights(d, m)
        ci == cutoff_index(p, sw)
    IN  IF IndexFault(ci, sw) THEN [raised |-> TRUE, mask |-> m]
        ELSE LET cutoff == sw[ci + 1]
             IN  [raised |-> FALSE,
                  mask |-> [i \in 1..Len(m) |->
                               IF Abs(d[i]) < cutoff THEN 0 ELSE m[i]]]

\* Variant: the comparison turned round, the largest magnitudes zeroed.
get_new_mask_largest(p, d, m) ==
    LET sw == sorted_weights(d, m)
        ci == cutoff_index(p, sw)
    IN  IF IndexFault(ci, sw) THEN [raised |-> TRUE, mask |-> m]
        ELSE LET cutoff == sw[ci + 1]
             IN  [raised |-> FALSE,
                  mask |-> [i \in 1..Len(m) |->
                               IF Abs(d[i]) >= cutoff THEN 0 ELSE m[i]]]

\* The result: raised (IndexError at line 155), or the new mask of line 156,
\* 0 where np.abs(data) <= cutoff and current_mask elsewhere.
get_new_mask(p, d, m) ==
    LET sw == sorted_weights(d, m)
        ci == cutoff_index(p, sw)
    IN  IF IndexFault(ci, sw) THEN [raised |-> TRUE, mask |-> m]
        ELSE LET cutoff == sw[ci + 1]
             IN  [raised |-> FALSE,
                  mask |-> [i \in 1..Len(m) |->
                               IF Abs(d[i]) <= cutoff THEN 0 ELSE m[i]]]

----------------------------------------------------------------------------
\* State.

VARIABLES
    data,              \* experiment.model's parameters: name -> tensor
    initial_weights,   \* experiment.model.initial_weights (pre-training snapshot);
                       \* <<>> where a specification does not follow it
    mask_dict,         \* the MaskDict; <<>> before get_initial_mask
    stats,             \* self.stats
    pc,                \* where the caller of the runner stands
    fault,             \* "none", or the uncaught exception that ended the run
    old_mask,          \* mask_dict as it was when the last prune was called
    prune_percent,     \* prune_percent of the last prune call, in tenths
    pre_init,          \* initial_weights_after_mask (line 208); <<>> before
    trained_weights,   \* the parameters prune read, while their runner is held
    num_epochs, num_batches, learning_rate, learning_rate_decay,
    tpc,               \* position inside train
    epoch, batch,      \* loop counters of train
    optimizer_lr,      \* param_group['lr'] of the optimizer
    validation_accuracy,  \* the local of train; NoValue while unbound
    steps, decays,     \* calls of optimizer.step() and of update_lr in this train
    val_log,           \* what each call of validate in this train returned
    last_step,         \* the loop step taken last
    data_b, mask_b,    \* a second runner: its model's parameters and its MaskDict
    old_mask_b, fault_b,   \* old_mask and fault of the second runner
    target             \* the weight tensor the two runners agree on

modelVars == <<data, initial_weights>>
pruneVars == <<mask_dict, old_mask, prune_percent>>
genVars   == <<pre_init, trained_weights>>
hyperVars == <<num_epochs, num_batches, learning_rate, learning_rate_decay>>
loopVars  == <<tpc, epoch, batch, optimizer_lr, validation_accuracy,
               steps, decays, val_log, last_step>>
pairVars  == <<data_b, mask_b, old_mask_b, fault_b, target>>

vars == <<modelVars, pruneVars, genVars, hyperVars, loopVars, pairVars,
          stats, pc, fault>>

NoValue == 0 - 1

\* get_zero_count_in_weights (lines 158-166)
get_zero_count_in_weights(d) ==
    [n \in WeightNames |-> get_zero_count(d[n])]

\* self.stats after __init__ (lines 31-34)
InitialStats(d) ==
    [device |-> "cuda",
     zero_counts_in_weights |-> get_zero_count_in_weights(d),
     training_duration_seconds |-> "unset",
     final_validation_accuracy |-> "unset",
     test_accuracy |-> "unset"]

\* Values of the variables a specification does not use.
IdlePrune == /\ mask_dict = <<>> /\ old_mask = <<>> /\ prune_percent = 0
IdleGen   == /\ pre_init = <<>> /\ trained_weights = <<>>
IdleHyper == /\ num_epochs = 1 /\ num_batches = 1
             /\ learning_rate = <<1, 200>> /\ learning_rate_decay = <<19, 20>>
IdleLoop  == /\ tpc = "Idle" /\ epoch = 0 /\ batch = 0
             /\ optimizer_lr = <<0, 1>> /\ validation_accuracy = NoValue
             /\ steps = 0 /\ decays = 0 /\ val_log = <<>> /\ last_step = "none"
IdlePair  == /\ data_b = <<>> /\ mask_b = <<>> /\ old_mask_b = <<>>
             /\ fault_b = "none" /\ target = <<>>

----------------------------------------------------------------------------
\* Variant: no filter on the parameter's name.
get_initial_mask_unfiltered ==
    [n \in Names |-> [i \in 1..Shape(n) |-> 1]]

\* ExperimentRunner.get_initial_mask (lines 129-135): the dict it returns.
get_initial_mask ==
    [n \in {m \in Names : endswith_weight(m)} |-> [i \in 1..Shape(n) |-> 1]]

\* ExperimentRunner.prune (lines 137-148): the loop over named_parameters from
\* position k on, writing into the dict md. A fault in get_new_mask leaves the
\* loop; the entries written before it stay written (the dict is the caller's).
RECURSIVE prune_loop(_, _, _, _)
prune_loop(k, md, d, p) ==
    IF k > Len(named_parameters) THEN [mask |-> md, fault |-> "none"]
    ELSE LET name == named_parameters[k].name
         IN  IF ~endswith_weight(name) THEN prune_loop(k + 1, md, d, p)
             ELSE LET new_mask == get_new_mask(p, d[name], md[name])
                  IN  IF new_mask.raised
                      THEN [mask |-> md, fault |-> "IndexError"]
                      ELSE prune_loop(k + 1, [md EXCEPT ![name] = new_mask.mask],
                                      d, p)

\* Variant: one cutoff for the whole network, taken over the unmasked weights
\* of all tensors together.
prune_global(md, d, p) ==
    LET seqs == [k \in 1..Len(named_parameters) |->
                    LET name == named_parameters[k].name
                    IN  IF endswith_weight(name)
                        THEN masked_select(d[name], md[name]) ELSE <<>>]
        all == seqs[1] \o seqs[2] \o seqs[3] \o seqs[4]
        sorted == torch_sort(torch_abs(all))
        idx == np_round(p, Len(sorted))
    IN  IF idx >= Len(sorted) THEN [mask |-> md, fault |-> "IndexError"]
        ELSE [mask |-> [n \in DOMAIN md |->
                          [i \in 1..Len(md[n]) |->
                              IF Abs(d[n][i]) <= sorted[idx + 1] THEN 0 ELSE md[n][i]]],
              fault |-> "none"]

prune(md, d, p) == prune_loop(1, md, d, p)

----------------------------------------------------------------------------
\* The runner driven by an arbitrary caller: get_initial_mask once, then train
\* and prune in any order and number, until a fault ends the run.

InitPrune ==
    /\ data \in AllData
    /\ initial_weights = <<>>
    /\ stats = InitialStats(data)
    /\ pc = "constructed"
    /\ fault = "none"
    /\ IdlePrune /\ IdleGen /\ IdleHyper /\ IdleLoop /\ IdlePair

GetInitialMask ==
    /\ fault = "none"
    /\ mask_dict = <<>>
    /\ mask_dict' = get_initial_mask
    /\ UNCHANGED <<old_mask, prune_percent, modelVars, genVars, hyperVars,
                   loopVars, pairVars, stats, pc, fault>>

\* train as one step (lines 47-71), as its caller sees it: the parameters end
\* at the values d, the duration and the final validation accuracy are
\* recorded (their values are followed in the loop of train below, not here),
\* the zero counts are taken again.
TrainEffect(d) ==
    /\ data' = d
    /\ stats' = [stats EXCEPT !.training_duration_seconds = "measured",
                              !.final_validation_accuracy = "measured",
                              !.zero_counts_in_weights = get_zero_count_in_weights(d)]

\* A train call may end at any weights. One step here rewrites one weight
\* tensor: a call that rewrites several is a sequence of these steps, and each
\* state in between is itself the outcome of a call, so the states reached are
\* those of calls that rewrite every tensor at once.
Train ==
    /\ fault = "none"
    /\ \E n \in WeightNames : \E t \in Tensors(n) :
          TrainEffect([data EXCEPT ![n] = t])
    /\ pc' = "trained"
    /\ UNCHANGED <<initial_weights, pruneVars, genVars, hyperVars, loopVars,
                   pairVars, fault>>

PruneEffect(p) ==
    LET r == prune(mask_dict, data, p)
    IN  /\ old_mask' = mask_dict
        /\ prune_percent' = p
        /\ mask_dict' = r.mask
        /\ fault' = r.fault

Prune ==
    /\ fault = "none"
    /\ mask_dict # <<>>
    /\ \E p \in PrunePercents : PruneEffect(p)
    /\ pc' = "pruned"
    /\ UNCHANGED <<modelVars, genVars, hyperVars, loopVars, pairVars, stats>>

NextPrune == GetInitialMask \/ Train \/ Prune

SpecPrune == InitPrune /\ [][NextPrune]_vars

----------------------------------------------------------------------------
\* ExperimentRunner.train (lines 47-71) step by step. The values the
\* optimizer writes into the parameters are not followed here (Train above
\* covers them): steps counts the calls of optimizer.step().

\* learning_rate (default 5e-3) and learning_rate_decay (default 0.95) as
\* fractions.
LearningRates == {<<1, 200>>}
Decays == {<<19, 20>>, <<1, 2>>, <<1, 1>>}

FracMul(a, b) == <<a[1] * b[1], a[2] * b[2]>>
FracEq(a, b) == a[1] * b[2] = b[1] * a[2]
FracLt(a, b) == a[1] * b[2] < b[1] * a[2]

RECURSIVE FracPow(_, _)
FracPow(a, k) == IF k = 0 THEN <<1, 1>> ELSE FracMul(a, FracPow(a, k - 1))

ZeroData == [n \in Names |-> [i \in 1..Shape(n) |-> 0]]

InitTrain ==
    /\ data = ZeroData
    /\ initial_weights = <<>>
    /\ stats = InitialStats(data)
    /\ pc = "constructed"
    /\ fault = "none"
    /\ num_epochs \in 0..MaxEpochs
    /\ num_batches \in 0..MaxBatches
    /\ learning_rate \in LearningRates
    /\ learning_rate_decay \in Decays
    /\ tpc = "Init" /\ epoch = 0 /\ batch = 0
    /\ optimizer_lr = <<0, 1>> /\ validation_accuracy = NoValue
    /\ steps = 0 /\ decays = 0 /\ val_log = <<>> /\ last_step = "none"
    /\ IdlePrune /\ IdleGen /\ IdlePair

\* Variant: one epoch too many.
in_range_inclusive(e, n) == e <= n

\* e in range(n) (line 52)
in_range(e, n) == e < n

\* line 65: the rate handed to update_lr after an epoch
decayed_lr == FracMul(learning_rate, learning_rate_decay)

notLoop == <<modelVars, pruneVars, genVars, hyperVars, pairVars, pc>>

\* Lines 48-52: the optimizer is built with lr = learning_rate and the epoch
\* loop is entered, or skipped when num_epochs is 0.
TrainStart ==
    /\ tpc = "Init" /\ fault = "none"
    /\ optimizer_lr' = learning_rate
    /\ epoch' = 0 /\ batch' = 0
    /\ tpc' = IF in_range(0, num_epochs) THEN "TrainEpoch" ELSE "Finish"
    /\ last_step' = "Init"
    /\ UNCHANGED <<validation_accuracy, steps, decays, val_log, stats, fault, notLoop>>

\* Lines 53-62: one batch of the train loader, one optimizer.step().
TrainBatch ==
    /\ tpc = "TrainEpoch" /\ fault = "none"
    /\ batch < num_batches
    /\ batch' = batch + 1
    /\ steps' = steps + 1
    /\ last_step' = "TrainEpoch"
    /\ UNCHANGED <<tpc, epoch, optimizer_lr, validation_accuracy, decays, val_log,
                   stats, fault, notLoop>>

\* Lines 64-66, once the loader is exhausted: the loss of the last batch is
\* printed (loss is unbound if the loader yielded no batch), then the rate is
\* set on the optimizer.
DecayLearningRate ==
    /\ tpc = "TrainEpoch" /\ fault = "none"
    /\ batch = num_batches
    /\ IF steps = 0
       THEN /\ fault' = "NameError"
            /\ UNCHANGED <<tpc, optimizer_lr, decays, last_step>>
       ELSE /\ optimizer_lr' = decayed_lr
            /\ decays' = decays + 1
            /\ tpc' = "Validate"
            /\ last_step' = "DecayLearningRate"
            /\ fault' = fault
    /\ UNCHANGED <<epoch, batch, validation_accuracy, steps, val_log, stats, notLoop>>

\* Line 67 (validate, lines 73-98, on a validation loader that is not empty),
\* then the next epoch or the end of the loop.
Validate ==
    /\ tpc = "Validate" /\ fault = "none"
    /\ \E acc \in Accuracies :
          /\ validation_accuracy' = acc
          /\ val_log' = Append(val_log, acc)
    /\ epoch' = epoch + 1
    /\ batch' = 0
    /\ tpc' = IF in_range(epoch + 1, num_epochs) THEN "TrainEpoch" ELSE "Finish"
    /\ last_step' = "Validate"
    /\ UNCHANGED <<optimizer_lr, steps, decays, stats, fault, notLoop>>

\* Lines 69-71: the stats; validation_accuracy is unbound if no epoch ran.
TrainFinish ==
    /\ tpc = "Finish" /\ fault = "none"
    /\ IF validation_accuracy = NoValue
       THEN /\ stats' = [stats EXCEPT !.training_duration_seconds = "measured"]
            /\ fault' = "NameError"
            /\ UNCHANGED <<tpc, last_step>>
       ELSE /\ stats' = [stats EXCEPT
                    !.training_duration_seconds = "measured",
                    !.final_validation_accuracy = validation_accuracy,
                    !.zero_counts_in_weights = get_zero_count_in_weights(data)]
            /\ tpc' = "Done"
            /\ last_step' = "Done"
            /\ fault' = fault
    /\ UNCHANGED <<epoch, batch, optimizer_lr, validation_accuracy, steps, decays,
                   val_log, notLoop>>

NextTrain == TrainStart \/ TrainBatch \/ DecayLearningRate \/ Validate \/ TrainFinish

SpecTrain == InitTrain /\ [][NextTrain]_vars

----------------------------------------------------------------------------
\* mnist_experiment (lines 193-215), from the model of line 193 on. pc names
\* the line about to run.

\* apply_mask_dict_to_weight_dict (utils): each weight tensor times its mask,
\* entry by entry; a tensor without a mask as it is.
apply_mask_dict_to_weight_dict(md, wd) ==
    [n \in DOMAIN wd |->
        IF n \in DOMAIN md
        THEN [i \in 1..Len(wd[n]) |-> IF md[n][i] = 1 THEN wd[n][i] ELSE 0]
        ELSE wd[n]]

\* Variant: the mask applied to the trained parameters.
initial_weights_after_mask_of_trained ==
    apply_mask_dict_to_weight_dict(mask_dict, data)

\* line 208
initial_weights_after_mask ==
    apply_mask_dict_to_weight_dict(mask_dict, initial_weights)

\* Line 193: FullyConnectedMNIST keeps a snapshot of the parameters it was
\* built with as initial_weights.
InitExperiment ==
    /\ data \in AllData
    /\ initial_weights = data
    /\ stats = [device |-> "unset", zero_counts_in_weights |-> "unset",
                training_duration_seconds |-> "unset",
                final_validation_accuracy |-> "unset", test_accuracy |-> "unset"]
    /\ pc = "l202"
    /\ fault = "none"
    /\ IdlePrune /\ IdleGen /\ IdleHyper /\ IdleLoop /\ IdlePair

\* Line 202: ExperimentRunner(model).
ExpRunner ==
    /\ pc = "l202"
    /\ stats' = InitialStats(data)
    /\ pc' = "l203"
    /\ UNCHANGED <<modelVars, pruneVars, genVars, hyperVars, loopVars, pairVars, fault>>

\* Line 203.
ExpGetInitialMask ==
    /\ pc = "l203"
    /\ mask_dict' = get_initial_mask
    /\ pc' = "l204"
    /\ UNCHANGED <<old_mask, prune_percent, modelVars, genVars, hyperVars,
                   loopVars, pairVars, stats, fault>>

\* Lines 204 and 213: train, ending at any parameters.
ExpTrain ==
    /\ pc \in {"l204", "l213"}
    /\ \E d \in AllData : TrainEffect(d)
    /\ pc' = IF pc = "l204" THEN "l205" ELSE "l214"
    /\ UNCHANGED <<initial_weights, pruneVars, genVars, hyperVars, loopVars,
                   pairVars, fault>>

\* Lines 205-206 and 214-215: test (lines 100-127) records the test accuracy;
\* print_stats changes nothing.
ExpTest ==
    /\ pc \in {"l205", "l214"}
    /\ stats' = [stats EXCEPT !.test_accuracy = "measured"]
    /\ pc' = IF pc = "l205" THEN "l207" ELSE "done"
    /\ UNCHANGED <<modelVars, pruneVars, genVars, hyperVars, loopVars, pairVars, fault>>

\* Line 207: prune(mask_dict, prune_percent=0.2) on the trained parameters.
ExpPrune ==
    /\ pc = "l207"
    /\ PruneEffect(2)
    /\ trained_weights' = data
    /\ pc' = IF fault' = "none" THEN "l208" ELSE "done"
    /\ UNCHANGED <<modelVars, pre_init, hyperVars, loopVars, pairVars, stats>>

\* Line 208.
ExpApplyMask ==
    /\ pc = "l208"
    /\ pre_init' = initial_weights_after_mask
    /\ pc' = "l210"
    /\ UNCHANGED <<modelVars, pruneVars, trained_weights, hyperVars, loopVars,
                   pairVars, stats, fault>>

\* Lines 210-212: model_2 is built from pre_init and mask_dict and a new
\* runner takes it; the first runner is dropped.
ExpSecondGeneration ==
    /\ pc = "l210"
    /\ data' = pre_init
    /\ initial_weights' = pre_init
    /\ stats' = InitialStats(pre_init)
    /\ trained_weights' = <<>>
    /\ pc' = "l213"
    /\ UNCHANGED <<pruneVars, pre_init, hyperVars, loopVars, pairVars, fault>>

NextExperiment ==
    \/ ExpRunner \/ ExpGetInitialMask \/ ExpTrain \/ ExpTest
    \/ ExpPrune \/ ExpApplyMask \/ ExpSecondGeneration

SpecExperiment == InitExperiment /\ [][NextExperiment]_vars

----------------------------------------------------------------------------
\* Two runners pruned with the same prune_percent. The first has the all-ones
\* mask of get_initial_mask and any trained parameters; the second agrees with
\* it on the parameters and the mask of the tensor target and has any
\* parameters and any mask on the other weight tensors.

AllMasks(n) == [1..Shape(n) -> {0, 1}]

TrainedStats(d) ==
    [InitialStats(d) EXCEPT !.training_duration_seconds = "measured",
                            !.final_validation_accuracy = "measured"]

InitPair ==
    /\ data \in AllData
    /\ initial_weights = <<>>
    /\ stats = TrainedStats(data)
    /\ pc = "trained"
    /\ fault = "none"
    /\ mask_dict = get_initial_mask
    /\ old_mask = <<>> /\ prune_percent = 0
    /\ target \in WeightNames
    /\ data_b \in {d \in AllData : d[target] = data[target]}
    /\ mask_b \in {m \in [WeightNames -> UNION {AllMasks(n) : n \in WeightNames}] :
                      /\ \A n \in WeightNames : m[n] \in AllMasks(n)
                      /\ m[target] = mask_dict[target]}
    /\ old_mask_b = <<>> /\ fault_b = "none"
    /\ IdleGen /\ IdleHyper /\ IdleLoop

\* prune on both runners.
PrunePair ==
    /\ pc = "trained"
    /\ \E p \in PrunePercents :
          /\ PruneEffect(p)
          /\ LET r == prune(mask_b, data_b, p)
             IN  /\ old_mask_b' = mask_b
                 /\ mask_b' = r.mask
                 /\ fault_b' = r.fault
    /\ pc' = "pruned"
    /\ UNCHANGED <<modelVars, genVars, hyperVars, loopVars, data_b, target, stats>>

NextPair == PrunePair

SpecPair == InitPair /\ [][NextPair]_vars

----------------------------------------------------------------------------
\* The statement of the pruning rule, written without the code's sort and
\* rounding: counts of positions and the nearest integer.

Unmasked(m) == {i \in 1..Len(m) : m[i] = 1}

RefCount(m) == Cardinality(Unmasked(m))

\* The integer nearest to tenths * n / 10, the even one of two equally near.
RefRound(tenths, n) ==
    CHOOSE r \in 0..(n + 1) :
        \/ Abs(10 * r - tenths * n) < 5
        \/ Abs(10 * r - tenths * n) = 5 /\ r % 2 = 0

RefIndex(p, m) == RefRound(p, RefCount(m))

RefFaults(p, m) == RefIndex(p, m) >= RefCount(m)

\* Element number k (from 0) of the unmasked magnitudes in ascending order.
RefCutoff(p, d, m) ==
    LET k == RefIndex(p, m)
    IN  CHOOSE c \in {Abs(d[i]) : i \in Unmasked(m)} :
            /\ Cardinality({i \in Unmasked(m) : Abs(d[i]) < c}) <= k
            /\ Cardinality({i \in Unmasked(m) : Abs(d[i]) <= c}) > k

RefMask(p, d, m) ==
    [i \in 1..Len(m) |->
        IF m[i] = 1 /\ Abs(d[i]) > RefCutoff(p, d, m) THEN 1 ELSE 0]

Pos(name) ==
    CHOOSE k \in 1..Len(named_parameters) : named_parameters[k].name = name

\* The last prune call got as far as tensor n: no weight tensor before it faulted.
Reached(n) ==
    \A e \in WeightNames : Pos(e) < Pos(n) => ~RefFaults(prune_percent, old_mask[e])

\* The last step was a prune call (the parameters are those it read).
Pruned == pc = "pruned"
PrunedOK == pc = "pruned" /\ fault = "none"

\* Positions of tensor n that the last prune call turned from 1 to 0, and kept at 1.
Zeroed(n) == {i \in Unmasked(old_mask[n]) : mask_dict[n][i] = 0}
Kept(n)   == {i \in Unmasked(old_mask[n]) : mask_dict[n][i] = 1}

DistinctMagnitudes(n) ==
    \A i, j \in Unmasked(old_mask[n]) :
        i # j => Abs(data[n][i]) # Abs(data[n][j])

----------------------------------------------------------------------------
\* C1: no step ever turns a mask entry from 0 to 1: from the all-ones mask on,
\* every entry of every mask after a step is <= the entry before it, so an
\* entry that is 0 stays 0 in every later round.
C1_MaskMonotone ==
    [][mask_dict # <<>> =>
         \A n \in DOMAIN mask_dict : \A i \in 1..Len(mask_dict[n]) :
             mask_dict'[n][i] <= mask_dict[n][i]]_vars

\* A round that met an already-zero position whose weight is above the cutoff
\* and left it zero, while zeroing another position.
C1_Witness ==
    /\ PrunedOK
    /\ \E n \in WeightNames : \E i, j \in 1..Shape(n) :
          /\ old_mask[n][i] = 0 /\ mask_dict[n][i] = 0
          /\ Abs(data[n][i]) > RefCutoff(prune_percent, data[n], old_mask[n])
          /\ old_mask[n][j] = 1 /\ mask_dict[n][j] = 0

\* C2: after a prune call, every weight tensor the call reached and on which
\* get_new_mask did not fault carries the reference mask: 1 exactly where the
\* prior mask is 1 and the magnitude exceeds element round(p * count) of the
\* ascending unmasked magnitudes.
C2_MaskIsReference ==
    Pruned =>
        \A n \in WeightNames :
            (Reached(n) /\ ~RefFaults(prune_percent, old_mask[n]))
                => mask_dict[n] = RefMask(prune_percent, data[n], old_mask[n])

\* A round on a partly masked tensor with a half-way product (p = 0.5, one
\* unmasked element) that zeroed it.
C2_Witness ==
    /\ PrunedOK /\ prune_percent = 5
    /\ \E n \in WeightNames :
          /\ RefCount(old_mask[n]) = 1 /\ RefCount(mask_dict[n]) = 0
          /\ Len(old_mask[n]) > 1

\* C3 as stated: the number of positions zeroed in a round is within 1 of
\* round(p * n), whatever the weight values.
C3_AsStated ==
    PrunedOK =>
        \A n \in WeightNames :
            LET z == Cardinality(Zeroed(n))
                r == RefIndex(prune_percent, old_mask[n])
            IN  z - r <= 1 /\ r - z <= 1

\* C3, amended: a successful round zeroes at least round(p * n) + 1 of the
\* unmasked positions (every position whose magnitude is <= the cutoff), and
\* exactly round(p * n) + 1 when the unmasked magnitudes are pairwise distinct.
C3_ZeroedCount ==
    PrunedOK =>
        \A n \in WeightNames :
            LET z == Cardinality(Zeroed(n))
                r == RefIndex(prune_percent, old_mask[n])
            IN  /\ z >= r + 1
                /\ z = Cardinality({i \in Unmasked(old_mask[n]) :
                         Abs(data[n][i]) <= RefCutoff(prune_percent, data[n], old_mask[n])})
                /\ DistinctMagnitudes(n) => z = r + 1

\* A round at p = 0.5 on two unmasked weights of different magnitude: both zeroed.
C3_Witness ==
    /\ PrunedOK /\ prune_percent = 5
    /\ \E n \in WeightNames :
          /\ RefCount(old_mask[n]) = 2 /\ DistinctMagnitudes(n)
          /\ Cardinality(Zeroed(n)) = 2

\* C4: after a successful round, every position kept has a magnitude strictly
\* greater than that of every position the round zeroed.
C4_KeptAreLargest ==
    PrunedOK =>
        \A n \in WeightNames : \A k \in Kept(n) : \A z \in Zeroed(n) :
            Abs(data[n][k]) > Abs(data[n][z])

\* A round that kept one position and zeroed another of the same tensor.
C4_Witness ==
    /\ PrunedOK
    /\ \E n \in WeightNames : Kept(n) # {} /\ Zeroed(n) # {}

\* C7: the dict of get_initial_mask has exactly the names ending in 'weight'
\* as keys, each mask as long as its tensor and all ones; the call changes
\* neither the parameters nor the stats.
C7_InitialMask ==
    /\ [](mask_dict # <<>> /\ old_mask = <<>> =>
            /\ DOMAIN mask_dict = {n \in Names : n[2] = "weight"}
            /\ \A n \in DOMAIN mask_dict :
                  /\ Len(mask_dict[n]) = Len(data[n])
                  /\ \A i \in 1..Len(mask_dict[n]) : mask_dict[n][i] = 1)
    /\ [][mask_dict = <<>> /\ mask_dict' # <<>> =>
            data' = data /\ stats' = stats]_vars

\* The mask built on a trained model: a bias exists and has no entry, and a
\* weight that is zero has a mask entry of 1.
C7_Witness ==
    /\ mask_dict # <<>> /\ old_mask = <<>> /\ pc = "trained"
    /\ \E n \in Names : n \notin DOMAIN mask_dict
    /\ \E a \in DOMAIN mask_dict : \E i \in 1..Len(data[a]) :
          data[a][i] = 0 /\ mask_dict[a][i] = 1

\* C10 as stated: a prune call faults exactly when some weight tensor has no
\* unmasked element.
C10_AsStated ==
    Pruned =>
        (fault = "IndexError" <=> \E n \in WeightNames : RefCount(old_mask[n]) = 0)

\* C10, amended: a prune call faults exactly when for some weight tensor
\* round(p * count) >= count, which covers count = 0 and also tensors with
\* unmasked elements (count = 1, p = 0.9); the faulting tensor and those after
\* it keep their prior masks, and the fault leaves prune uncaught.
C10_FaultsIffIndexOutOfRange ==
    Pruned =>
        /\ fault = "IndexError" <=>
              \E n \in WeightNames : RefFaults(prune_percent, old_mask[n])
        /\ \A n \in WeightNames :
              ~Reached(n) \/ RefFaults(prune_percent, old_mask[n])
                  => mask_dict[n] = old_mask[n]

\* A call at p = 0.6 that faulted though every weight tensor still had an
\* unmasked element.
C10_Witness ==
    /\ Pruned /\ fault = "IndexError" /\ prune_percent = 6
    /\ \A n \in WeightNames : RefCount(old_mask[n]) > 0

----------------------------------------------------------------------------
\* C5 as stated: the decay compounds; the rate set on the optimizer after the
\* k-th epoch is learning_rate * learning_rate_decay^k.
C5_AsStated ==
    tpc = "Validate" =>
        FracEq(optimizer_lr, FracMul(learning_rate, FracPow(learning_rate_decay, decays)))

\* C8: train runs TrainEpoch, DecayLearningRate, Validate in this order once
\* per epoch, num_epochs times: when the rate is set every batch of the epoch
\* has been processed exactly once, validation follows the decay and runs once
\* per epoch, and at Done the final validation accuracy in stats is what the
\* last validation returned.
C8_EpochStateMachine ==
    /\ tpc = "Validate" =>
          /\ last_step = "DecayLearningRate"
          /\ steps = (epoch + 1) * num_batches
          /\ decays = epoch + 1
          /\ Len(val_log) = epoch
    /\ tpc = "TrainEpoch" =>
          /\ last_step \in {"Init", "TrainEpoch", "Validate"}
          /\ steps = epoch * num_batches + batch
          /\ batch <= num_batches
          /\ decays = epoch /\ Len(val_log) = epoch
          /\ epoch < num_epochs
    /\ tpc = "Done" =>
          /\ num_epochs >= 1
          /\ epoch = num_epochs
          /\ steps = num_epochs * num_batches
          /\ decays = num_epochs
          /\ Len(val_log) = num_epochs
          /\ stats.final_validation_accuracy = val_log[num_epochs]

\* A finished train of several epochs whose validations differed: the stat is
\* the last value, not the first.
C8_Witness ==
    /\ tpc = "Done" /\ num_epochs >= 2 /\ num_batches >= 2
    /\ val_log[1] # val_log[num_epochs]
    /\ stats.final_validation_accuracy = val_log[num_epochs]

----------------------------------------------------------------------------
\* C6: the seed of generation 2 is, entry by entry, generation 1's untrained
\* initial weight where the pruned mask is 1 and zero where it is 0; the mask
\* is the one pruned from the parameters train left; prune runs only once
\* train has finished; model_2 starts from the seed.
C6_SeedFromInitialWeights ==
    /\ pc = "l210" =>
          /\ \A n \in WeightNames : \A i \in 1..Shape(n) :
                pre_init[n][i] =
                    IF mask_dict[n][i] = 1 THEN initial_weights[n][i] ELSE 0
          /\ \A n \in WeightNames :
                mask_dict[n] = RefMask(2, trained_weights[n], old_mask[n])
          /\ trained_weights = data
    /\ pc \in {"l208", "l210"} =>
          /\ stats.training_duration_seconds = "measured"
          /\ stats.final_validation_accuracy = "measured"
    /\ pc = "l213" => data = pre_init

\* A seed entry that is the initial weight although training had moved that
\* weight to another non-zero value.
C6_Witness ==
    /\ pc = "l210"
    /\ \E n \in WeightNames : \E i \in 1..Shape(n) :
          /\ mask_dict[n][i] = 1
          /\ initial_weights[n][i] # trained_weights[n][i]
          /\ initial_weights[n][i] # 0
          /\ pre_init[n][i] = initial_weights[n][i]

----------------------------------------------------------------------------
\* The prune call of the second runner got as far as tensor n.
ReachedB(n) ==
    \A e \in WeightNames : Pos(e) < Pos(n) => ~RefFaults(prune_percent, old_mask_b[e])

====
